---------------------------- MODULE Spec2Model ----------------------------
(***************************************************************************)
(* Model of src/claude.py: the Streamlit utility that sends each uploaded  *)
(* SQL file to a remote model for translation (convert_procedure), tries   *)
(* to create the translated procedure in Snowflake                         *)
(* (create_stored_procedure_in_snowflake), asks the remote model once for  *)
(* a repair on a ProgrammingError (procedure_error_rtry), and lists the    *)
(* outcomes and a zip of the translations (main).                          *)
(*                                                                         *)
(* One behaviour of the model is one run of main() after the Convert       *)
(* button is pressed.  The program is sequential; every action below is    *)
(* the code between two calls of an external service (the database or the  *)
(* remote model), whose outcome the action draws from a small set.         *)
(*                                                                         *)
(* Texts are sequences of one-character strings, so that str.find, slices  *)
(* and str.strip are computed as Python computes them.  A Script's name is *)
(* its identity (spec section 3): the names of a batch are distinct.       *)
(***************************************************************************)
EXTENDS Integers, Sequences, FiniteSets, TLC

\* The largest batch of uploaded files the model explores.
MaxFiles == 2

-----------------------------------------------------------------------------
(* Python values *)

\* Python's None.  It is a tuple that is no text: "None" is no character.
None == <<"None">>

\* The characters str.strip() removes.
Whitespace == {" ", "\n"}

\* The backquote character (U+0060), which a TLA+ string cannot hold.
BQ == "bq"

\* The opening marker and the fence the code searches for.
SqlMarker == <<BQ, BQ, BQ, "s", "q", "l">>
Fence == <<BQ, BQ, BQ>>

\* text[i:j] for 0 <= i, with the clipping of Python (0-based, j exclusive).
Slice(text, i, j) ==
    LET hi == IF j > Len(text) THEN Len(text) ELSE j
    IN  IF i >= hi THEN <<>> ELSE SubSeq(text, i + 1, hi)

\* Whether pat occurs in text at 0-based index i.
OccursAt(text, pat, i) ==
    /\ i >= 0
    /\ i + Len(pat) <= Len(text)
    /\ \A k \in 1..Len(pat) : text[i + k] = pat[k]

\* Find searching from the beginning of the text, whatever start is.
FindIgnoresStart(text, pat, start) ==
    LET hits == {i \in 0..Len(text) : OccursAt(text, pat, i)}
    IN  IF hits = {} THEN -1 ELSE CHOOSE i \in hits : \A j \in hits : i <= j

\* text.find(pat, start) for start >= 0: the lowest index >= start at which
\* pat occurs, or -1.
Find(text, pat, start) ==
    LET hits == {i \in start..Len(text) : OccursAt(text, pat, i)}
    IN  IF hits = {} THEN -1 ELSE CHOOSE i \in hits : \A j \in hits : i <= j

\* text.strip()
RECURSIVE LStrip(_)
LStrip(text) ==
    IF text # <<>> /\ Head(text) \in Whitespace THEN LStrip(Tail(text)) ELSE text

RECURSIVE RStrip(_)
RStrip(text) ==
    IF text # <<>> /\ text[Len(text)] \in Whitespace
    THEN RStrip(SubSeq(text, 1, Len(text) - 1))
    ELSE text

Strip(text) == RStrip(LStrip(text))

\* Truthy as an `is not None` test.
TruthyIsNotNone(v) == v # None

\* Python truthiness of a value that is None or a str: `if converted_code:`.
Truthy(v) == v # None /\ v # <<>>

\* Lines 44-52 (and, identically, 96-104): the fenced block of the response.
\* When there is no opening marker start_index is -1 and the closing fence
\* is searched from index 5; the result is None all the same.
ExtractSql(response_text) ==
    LET start_index == Find(response_text, SqlMarker, 0)
        end_index == Find(response_text, Fence, start_index + 6)
    IN  IF start_index # -1 /\ end_index # -1
        THEN Strip(Slice(response_text, start_index + 6, end_index))
        ELSE None


-----------------------------------------------------------------------------
(* The remote model *)

\* Response texts of the remote model: a fenced SQL block, one padded with
\* whitespace, one holding whitespace only, no block at all, an opening
\* marker that is never closed, and a plain fence before such a marker.
ModelTexts ==
    { SqlMarker \o <<"\n", "A", "\n">> \o Fence,
      <<"x", " ">> \o SqlMarker \o <<" ", "B">> \o Fence \o <<"x">>,
      SqlMarker \o <<" ", "\n">> \o Fence,
      <<"A", "B">>,
      SqlMarker \o <<"A">>,
      Fence \o <<"A">> \o SqlMarker \o <<"B">> }

\* What one use of the remote model can do: boto3.client(...) raises, or
\* client.converse(...) raises, or the response lacks the fields read at
\* line 44, or it holds a text.
RemoteOutcomes ==
    { [setup |-> "raise", reply |-> "none", text |-> <<>>],
      [setup |-> "ok", reply |-> "raise", text |-> <<>>],
      [setup |-> "ok", reply |-> "malformed", text |-> <<>>] }
    \cup { [setup |-> "ok", reply |-> "text", text |-> t] : t \in ModelTexts }

\* Lines 10-56.  boto3.client (line 14) is outside the try block: what it
\* raises leaves the function.  Everything from line 36 on is inside it and
\* ends in `return None`.
convert_procedure(o) ==
    IF o.setup = "raise" THEN [raised |-> TRUE, value |-> None]
    ELSE IF o.reply # "text" THEN [raised |-> FALSE, value |-> None]
    ELSE [raised |-> FALSE, value |-> ExtractSql(o.text)]

\* Lines 58-108: the same shape, with boto3.client at line 62.
procedure_error_rtry(o) ==
    IF o.setup = "raise" THEN [raised |-> TRUE, value |-> None]
    ELSE IF o.reply # "text" THEN [raised |-> FALSE, value |-> None]
    ELSE [raised |-> FALSE, value |-> ExtractSql(o.text)]

\* Line 130-133.
process_sql_code(o) == convert_procedure(o)

-----------------------------------------------------------------------------
(* The database *)

\* Outcomes of a call on the connection or the cursor: success, a
\* snowflake.connector.errors.ProgrammingError, or an error of another class.
DbOutcomes == {"ok", "ProgrammingError", "OtherError"}

\* FirstAttemptResult with the success of the first execute falling into the
\* repair path.
FirstAttemptResultAlwaysRepairs(outcome) ==
    CASE outcome = "OtherError" -> "raise"
      [] OTHER -> "repair"

\* Lines 114-118: what the first cursor.execute leads to.
FirstAttemptResult(outcome) ==
    CASE outcome = "ok" -> "True"
      [] outcome = "ProgrammingError" -> "repair"
      [] OTHER -> "raise"

\* Lines 121-125: what the second cursor.execute leads to.
SecondAttemptResult(outcome) ==
    CASE outcome = "ok" -> "True"
      [] outcome = "ProgrammingError" -> "False"
      [] OTHER -> "raise"

\* SecondSubmission with the original statement submitted again.
SecondSubmissionResubmitsOriginal(sql_code, corrected) == sql_code

\* Line 122: the statement of the second cursor.execute.
SecondSubmission(sql_code, corrected) == corrected

\* Lines 135-142: one entry per pair, in order.
create_zip_file(files) == files

-----------------------------------------------------------------------------
(* State *)

VARIABLES
    uploaded_files,        \* the names of the uploaded files, in order
    pc,                    \* where main() is
    idx,                   \* the position of the for loop of line 168
    snowflake_connection,  \* "unbound", "open" or "closed"
    cursor,                \* the local of line 115: "unbound", "open", "closed"
    converted_code,        \* the sql_code of the current registration
    corrected_sql_code,    \* line 119
    converted_files,       \* line 152
    created_successfully,  \* line 153
    not_created_files,     \* line 154
    zip_file,              \* line 194, None until written
    shown,                 \* what the page renders: "nothing", "warning",
                           \* "report" or "error"
    error_message,         \* the exception st.error names (line 198)
    uncaught,              \* the exception that left main(), or "none"
    registration,          \* per file: how the call of line 175 ended
    calls,                 \* history: the external calls made, in order
    response_text,         \* line 44, when the extraction is run on its own
    sql_code_block         \* line 49-52: what that extraction returned

vars == <<uploaded_files, pc, idx, snowflake_connection, cursor, converted_code,
          corrected_sql_code, converted_files, created_successfully,
          not_created_files, zip_file, shown, error_message, uncaught,
          registration, calls, response_text, sql_code_block>>

\* os.path.basename(uploaded_file.name) of the i-th upload.
FileName(i) == ToString(i) \o ".sql"

NumFiles == Len(uploaded_files)

\* One entry of the history.
Call(op, file, arg, status, value, error) ==
    [op |-> op, file |-> file, arg |-> arg, status |-> status,
     value |-> value, error |-> error]

Init ==
    /\ uploaded_files \in {[i \in 1..n |-> FileName(i)] : n \in 0..MaxFiles}
    /\ pc = "button"
    /\ idx = 0
    /\ snowflake_connection = "unbound"
    /\ cursor = "unbound"
    /\ converted_code = None
    /\ corrected_sql_code = None
    /\ converted_files = <<>>
    /\ created_successfully = <<>>
    /\ not_created_files = <<>>
    /\ zip_file = None
    /\ shown = "nothing"
    /\ error_message = "none"
    /\ uncaught = "none"
    /\ registration = [i \in 1..NumFiles |-> "not called"]
    /\ calls = <<>>
    /\ response_text = None
    /\ sql_code_block = None


-----------------------------------------------------------------------------
(* main(), lines 144-202, and the functions it calls *)

\* Except with the report rendered after the exception all the same.
ExceptStillReports(e) ==
    /\ shown' = "report"
    /\ error_message' = e
    /\ pc' = "finally"

\* Lines 197-198: `except Exception as e` renders the error; the finally
\* clause of line 199 follows.
Except(e) ==
    /\ shown' = "error"
    /\ error_message' = e
    /\ pc' = "finally"

\* Lines 126-128 and 175-178: leaving create_stored_procedure_in_snowflake.
\* The finally clause calls cursor.close(); when line 115 never bound
\* cursor this raises UnboundLocalError, which replaces the pending return or
\* exception.  Otherwise the pending outcome stands: a return value, which
\* main() records in one of its lists, or the exception e.
Leave(pending, e) ==
    IF cursor = "unbound"
    THEN /\ Except("UnboundLocalError")
         /\ registration' = [registration EXCEPT ![idx] = "raised"]
         /\ UNCHANGED <<cursor, idx, created_successfully, not_created_files>>
    ELSE /\ cursor' = "closed"
         /\ CASE pending = "True" ->
                   /\ created_successfully' =
                          Append(created_successfully, uploaded_files[idx])
                   /\ registration' = [registration EXCEPT ![idx] = "True"]
                   /\ idx' = idx + 1
                   /\ pc' = "loop"
                   /\ UNCHANGED <<not_created_files, shown, error_message>>
              [] pending = "False" ->
                   /\ not_created_files' =
                          Append(not_created_files, uploaded_files[idx])
                   /\ registration' = [registration EXCEPT ![idx] = "False"]
                   /\ idx' = idx + 1
                   /\ pc' = "loop"
                   /\ UNCHANGED <<created_successfully, shown, error_message>>
              [] OTHER ->
                   /\ Except(e)
                   /\ registration' = [registration EXCEPT ![idx] = "raised"]
                   /\ UNCHANGED <<idx, created_successfully, not_created_files>>

\* Lines 150-151, 201-202: Convert pressed with nothing uploaded.
Warning ==
    /\ pc = "button"
    /\ uploaded_files = <<>>
    /\ shown' = "warning"
    /\ pc' = "done"
    /\ UNCHANGED <<response_text, sql_code_block>>
    /\ UNCHANGED <<uploaded_files, idx, snowflake_connection, cursor,
                   converted_code, corrected_sql_code, converted_files,
                   created_successfully, not_created_files, zip_file,
                   error_message, uncaught, registration, calls>>

\* Connect with a failed connection attempt swallowed and the loop entered.
ConnectIgnoresFailure ==
    /\ pc = "button"
    /\ uploaded_files # <<>>
    /\ \E outcome \in {"ok", "OtherError"} :
         /\ calls' = Append(calls, Call("connect", 0, None,
                              IF outcome = "ok" THEN "returned" ELSE "raised",
                              None, outcome))
         /\ snowflake_connection' =
                IF outcome = "ok" THEN "open" ELSE snowflake_connection
         /\ idx' = 1
         /\ pc' = "loop"
         /\ UNCHANGED <<shown, error_message>>
    /\ UNCHANGED <<response_text, sql_code_block>>
    /\ UNCHANGED <<uploaded_files, cursor, converted_code, corrected_sql_code,
                   converted_files, created_successfully, not_created_files,
                   zip_file, uncaught, registration>>

\* Lines 152-166: the lists are created and the connection is opened.
Connect ==
    /\ pc = "button"
    /\ uploaded_files # <<>>
    /\ \E outcome \in {"ok", "OtherError"} :
         /\ calls' = Append(calls, Call("connect", 0, None, 
                              IF outcome = "ok" THEN "returned" ELSE "raised",
                              None, outcome))
         /\ IF outcome = "ok"
            THEN /\ snowflake_connection' = "open"
                 /\ idx' = 1
                 /\ pc' = "loop"
                 /\ UNCHANGED <<shown, error_message>>
            ELSE /\ Except(outcome)
                 /\ UNCHANGED <<snowflake_connection, idx>>
    /\ UNCHANGED <<response_text, sql_code_block>>
    /\ UNCHANGED <<uploaded_files, cursor, converted_code, corrected_sql_code,
                   converted_files, created_successfully, not_created_files,
                   zip_file, uncaught, registration>>

\* Translate with a falsy translation recorded as failed and handed to the
\* registration all the same.
TranslateRegistersAbsent ==
    /\ pc = "loop"
    /\ idx <= NumFiles
    /\ \E o \in RemoteOutcomes :
         LET r == process_sql_code(o) IN
         /\ calls' = Append(calls, Call("convert_procedure", idx, None,
                              IF r.raised THEN "raised" ELSE "returned",
                              r.value, "none"))
         /\ IF r.raised
            THEN /\ Except("ClientSetupError")
                 /\ UNCHANGED <<idx, cursor, converted_code, converted_files,
                                not_created_files, registration>>
            ELSE /\ IF Truthy(r.value)
                    THEN /\ converted_files' =
                                Append(converted_files,
                                       <<uploaded_files[idx], r.value>>)
                         /\ UNCHANGED not_created_files
                    ELSE /\ not_created_files' =
                                Append(not_created_files, uploaded_files[idx])
                         /\ UNCHANGED converted_files
                 /\ converted_code' = r.value
                 /\ cursor' = "unbound"
                 /\ registration' = [registration EXCEPT ![idx] = "running"]
                 /\ pc' = "cursor"
                 /\ UNCHANGED <<idx, shown, error_message>>
    /\ corrected_sql_code' = None
    /\ UNCHANGED <<response_text, sql_code_block>>
    /\ UNCHANGED <<uploaded_files, snowflake_connection, created_successfully,
                   zip_file, uncaught>>

\* Lines 168-174 and 179-180: the next file is read and translated.  A
\* truthy translation is appended to converted_files and handed to
\* create_stored_procedure_in_snowflake; otherwise the name goes to
\* not_created_files.  What convert_procedure raises reaches line 197.
Translate ==
    /\ pc = "loop"
    /\ idx <= NumFiles
    /\ \E o \in RemoteOutcomes :
         LET r == process_sql_code(o) IN
         /\ calls' = Append(calls, Call("convert_procedure", idx, None,
                              IF r.raised THEN "raised" ELSE "returned",
                              r.value, "none"))
         /\ IF r.raised
            THEN /\ Except("ClientSetupError")
                 /\ UNCHANGED <<idx, cursor, converted_code, converted_files,
                                not_created_files, registration>>
            ELSE IF Truthy(r.value)
            THEN /\ converted_files' =
                        Append(converted_files, <<uploaded_files[idx], r.value>>)
                 /\ converted_code' = r.value
                 /\ cursor' = "unbound"
                 /\ registration' = [registration EXCEPT ![idx] = "running"]
                 /\ pc' = "cursor"
                 /\ UNCHANGED <<idx, not_created_files, shown, error_message>>
            ELSE /\ not_created_files' =
                        Append(not_created_files, uploaded_files[idx])
                 /\ idx' = idx + 1
                 /\ pc' = "loop"
                 /\ UNCHANGED <<cursor, converted_code, converted_files,
                                registration, shown, error_message>>
    /\ corrected_sql_code' = None
    /\ UNCHANGED <<response_text, sql_code_block>>
    /\ UNCHANGED <<uploaded_files, snowflake_connection, created_successfully,
                   zip_file, uncaught>>

\* Line 115: cursor = connection.cursor().  A ProgrammingError enters the
\* handler of line 118 with cursor unbound; another error leaves through
\* the finally clause.
CursorCreate ==
    /\ pc = "cursor"
    /\ \E outcome \in DbOutcomes :
         /\ calls' = Append(calls, Call("cursor", idx, None,
                              IF outcome = "ok" THEN "returned" ELSE "raised",
                              None, outcome))
         /\ CASE outcome = "ok" ->
                   /\ cursor' = "open"
                   /\ pc' = "execute"
                   /\ UNCHANGED <<idx, created_successfully, not_created_files,
                                  shown, error_message, registration>>
              [] outcome = "ProgrammingError" ->
                   /\ pc' = "repair"
                   /\ UNCHANGED <<cursor, idx, created_successfully,
                                  not_created_files, shown, error_message,
                                  registration>>
              [] OTHER -> Leave("raise", outcome)
    /\ UNCHANGED <<response_text, sql_code_block>>
    /\ UNCHANGED <<uploaded_files, snowflake_connection, converted_code,
                   corrected_sql_code, converted_files, zip_file, uncaught>>

\* Lines 116-118: the first cursor.execute(sql_code).
Execute ==
    /\ pc = "execute"
    /\ \E outcome \in DbOutcomes :
         /\ calls' = Append(calls, Call("execute", idx, converted_code,
                              IF outcome = "ok" THEN "returned" ELSE "raised",
                              None, outcome))
         /\ IF FirstAttemptResult(outcome) = "repair"
            THEN /\ pc' = "repair"
                 /\ UNCHANGED <<cursor, idx, created_successfully,
                                not_created_files, shown, error_message,
                                registration>>
            ELSE Leave(FirstAttemptResult(outcome), outcome)
    /\ UNCHANGED <<response_text, sql_code_block>>
    /\ UNCHANGED <<uploaded_files, snowflake_connection, converted_code,
                   corrected_sql_code, converted_files, zip_file, uncaught>>

\* Repair with the repaired body replacing the archived translation.
RepairRearchives ==
    /\ pc = "repair"
    /\ \E o \in RemoteOutcomes :
         LET r == procedure_error_rtry(o) IN
         /\ calls' = Append(calls, Call("procedure_error_rtry", idx,
                              converted_code,
                              IF r.raised THEN "raised" ELSE "returned",
                              r.value, "none"))
         /\ IF r.raised
            THEN /\ Leave("raise", "ClientSetupError")
                 /\ UNCHANGED <<corrected_sql_code, converted_files>>
            ELSE IF Truthy(r.value)
            THEN /\ corrected_sql_code' = r.value
                 /\ converted_files' =
                        [converted_files EXCEPT ![Len(converted_files)] =
                            <<uploaded_files[idx], r.value>>]
                 /\ pc' = "retry"
                 /\ UNCHANGED <<cursor, idx, created_successfully,
                                not_created_files, shown, error_message,
                                registration>>
            ELSE /\ Leave("False", "none")
                 /\ corrected_sql_code' = r.value
                 /\ UNCHANGED converted_files
    /\ UNCHANGED <<response_text, sql_code_block>>
    /\ UNCHANGED <<uploaded_files, snowflake_connection, converted_code,
                   zip_file, uncaught>>

\* Lines 119-120: the repair request.  A truthy result goes to the second
\* cursor.execute; a falsy one falls through to `return False`; what
\* procedure_error_rtry raises leaves through the finally clause.
Repair ==
    /\ pc = "repair"
    /\ \E o \in RemoteOutcomes :
         LET r == procedure_error_rtry(o) IN
         /\ calls' = Append(calls, Call("procedure_error_rtry", idx,
                              converted_code,
                              IF r.raised THEN "raised" ELSE "returned",
                              r.value, "none"))
         /\ IF r.raised
            THEN /\ Leave("raise", "ClientSetupError")
                 /\ UNCHANGED corrected_sql_code
            ELSE IF Truthy(r.value)
            THEN /\ corrected_sql_code' = r.value
                 /\ pc' = "retry"
                 /\ UNCHANGED <<cursor, idx, created_successfully,
                                not_created_files, shown, error_message,
                                registration>>
            ELSE /\ Leave("False", "none")
                 /\ corrected_sql_code' = r.value
    /\ UNCHANGED <<response_text, sql_code_block>>
    /\ UNCHANGED <<uploaded_files, snowflake_connection, converted_code,
                   converted_files, zip_file, uncaught>>

\* Retry with a second ProgrammingError asking for another repair (up to a
\* third submission) instead of returning False.
RetryRepairsAgain ==
    /\ pc = "retry"
    /\ cursor # "unbound"
    /\ \E outcome \in DbOutcomes :
         /\ calls' = Append(calls, Call("execute", idx,
                              SecondSubmission(converted_code, corrected_sql_code),
                              IF outcome = "ok" THEN "returned" ELSE "raised",
                              None, outcome))
         /\ IF /\ outcome = "ProgrammingError"
               /\ Len(SelectSeq(calls, LAMBDA c : c.op = "execute" /\ c.file = idx)) < 2
            THEN /\ pc' = "repair"
                 /\ UNCHANGED <<cursor, idx, created_successfully,
                                not_created_files, shown, error_message,
                                registration>>
            ELSE Leave(SecondAttemptResult(outcome), outcome)
    /\ UNCHANGED <<response_text, sql_code_block>>
    /\ UNCHANGED <<uploaded_files, snowflake_connection, converted_code,
                   corrected_sql_code, converted_files, zip_file, uncaught>>

\* Lines 121-125 with cursor bound: cursor.execute(corrected_sql_code) on
\* the cursor of line 115.
Retry ==
    /\ pc = "retry"
    /\ cursor # "unbound"
    /\ \E outcome \in DbOutcomes :
         /\ calls' = Append(calls, Call("execute", idx,
                              SecondSubmission(converted_code, corrected_sql_code),
                              IF outcome = "ok" THEN "returned" ELSE "raised",
                              None, outcome))
         /\ Leave(SecondAttemptResult(outcome), outcome)
    /\ UNCHANGED <<response_text, sql_code_block>>
    /\ UNCHANGED <<uploaded_files, snowflake_connection, converted_code,
                   corrected_sql_code, converted_files, zip_file, uncaught>>

\* Line 122 with cursor unbound (line 115 raised the ProgrammingError):
\* evaluating `cursor` raises UnboundLocalError before any submission.
RetryUnbound ==
    /\ pc = "retry"
    /\ cursor = "unbound"
    /\ Leave("raise", "UnboundLocalError")
    /\ UNCHANGED <<response_text, sql_code_block>>
    /\ UNCHANGED <<uploaded_files, snowflake_connection, converted_code,
                   corrected_sql_code, converted_files, zip_file, uncaught,
                   calls>>

\* Lines 182-195: the loop is over; the lists and the zip are rendered.
DisplayResults ==
    /\ pc = "loop"
    /\ idx > NumFiles
    /\ shown' = "report"
    /\ zip_file' = create_zip_file(converted_files)
    /\ pc' = "finally"
    /\ UNCHANGED <<response_text, sql_code_block>>
    /\ UNCHANGED <<uploaded_files, idx, snowflake_connection, cursor,
                   converted_code, corrected_sql_code, converted_files,
                   created_successfully, not_created_files, error_message,
                   uncaught, registration, calls>>

\* Lines 199-200 with the connection bound: snowflake_connection.close().
CloseConnection ==
    /\ pc = "finally"
    /\ snowflake_connection # "unbound"
    /\ snowflake_connection' = "closed"
    /\ calls' = Append(calls, Call("close", 0, None, "returned", None, "ok"))
    /\ pc' = "done"
    /\ UNCHANGED <<response_text, sql_code_block>>
    /\ UNCHANGED <<uploaded_files, idx, cursor, converted_code,
                   corrected_sql_code, converted_files, created_successfully,
                   not_created_files, zip_file, shown, error_message, uncaught,
                   registration>>

\* Lines 199-200 when line 158 raised: the name snowflake_connection was
\* never bound, the finally clause raises UnboundLocalError and nothing
\* catches it.
CloseUnbound ==
    /\ pc = "finally"
    /\ snowflake_connection = "unbound"
    /\ uncaught' = "UnboundLocalError"
    /\ pc' = "crashed"
    /\ UNCHANGED <<response_text, sql_code_block>>
    /\ UNCHANGED <<uploaded_files, idx, snowflake_connection, cursor,
                   converted_code, corrected_sql_code, converted_files,
                   created_successfully, not_created_files, zip_file, shown,
                   error_message, registration, calls>>

Next ==
    \/ Warning
    \/ Connect
    \/ Translate
    \/ CursorCreate
    \/ Execute
    \/ Repair
    \/ Retry
    \/ RetryUnbound
    \/ DisplayResults
    \/ CloseConnection
    \/ CloseUnbound

Spec == Init /\ [][Next]_vars

-----------------------------------------------------------------------------
(* The extraction of lines 44-52 and 96-104 on its own *)

\* The longest response text, in pieces, the extraction is run on.
MaxPieces == 6

\* The pieces the response texts are made of: the opening marker, a fence,
\* a single backquote, whitespace and a letter.
Pieces == {SqlMarker, Fence, <<BQ>>, <<" ">>, <<"A">>}

\* The texts of at most n pieces.
RECURSIVE TextsOf(_)
TextsOf(n) ==
    IF n = 0 THEN {<<>>}
    ELSE LET shorter == TextsOf(n - 1)
         IN  shorter \cup {t \o p : t \in shorter, p \in Pieces}

ExtractorTexts == TextsOf(MaxPieces)

\* A response text has arrived (line 44); nothing else of main() is running.
ExtractorInit ==
    /\ response_text \in ExtractorTexts
    /\ sql_code_block = None
    /\ pc = "extractor"
    /\ uploaded_files = <<>>
    /\ idx = 0
    /\ snowflake_connection = "unbound"
    /\ cursor = "unbound"
    /\ converted_code = None
    /\ corrected_sql_code = None
    /\ converted_files = <<>>
    /\ created_successfully = <<>>
    /\ not_created_files = <<>>
    /\ zip_file = None
    /\ shown = "nothing"
    /\ error_message = "none"
    /\ uncaught = "none"
    /\ registration = <<>>
    /\ calls = <<>>

\* Lines 44-52: convert_procedure extracts the block of the response.
ExtractTranslation ==
    /\ pc = "extractor"
    /\ sql_code_block' = ExtractSql(response_text)
    /\ pc' = "translation extracted"
    /\ UNCHANGED <<uploaded_files, idx, snowflake_connection, cursor,
                   converted_code, corrected_sql_code, converted_files,
                   created_successfully, not_created_files, zip_file, shown,
                   error_message, uncaught, registration, calls,
                   response_text>>

\* Lines 96-104: procedure_error_rtry does the same.
ExtractRepair ==
    /\ pc = "extractor"
    /\ sql_code_block' = ExtractSql(response_text)
    /\ pc' = "repair extracted"
    /\ UNCHANGED <<uploaded_files, idx, snowflake_connection, cursor,
                   converted_code, corrected_sql_code, converted_files,
                   created_successfully, not_created_files, zip_file, shown,
                   error_message, uncaught, registration, calls,
                   response_text>>

ExtractorNext ==
    \/ ExtractTranslation
    \/ ExtractRepair

SpecExtractor == ExtractorInit /\ [][ExtractorNext]_vars

\* The run is over.
Ended == pc \in {"done", "crashed"}

-----------------------------------------------------------------------------
(* Vocabulary of the properties *)

Files == 1..NumFiles

\* The calls of kind op made for the i-th file, in order.
CallsOf(i, op) == SelectSeq(calls, LAMBDA c : c.op = op /\ c.file = i)

\* The submissions (cursor.execute) and the repair requests of the
\* registration of the i-th file.
Submissions(i) == CallsOf(i, "execute")
Repairs(i) == CallsOf(i, "procedure_error_rtry")

\* The call of create_stored_procedure_in_snowflake for file i is over.
Finished(i) == registration[i] \in {"True", "False", "raised"}

\* A body: a value that is a non-empty text.
IsBody(v) == v # None /\ v # <<>>

\* Whether name occurs in the list.
InList(list, name) == \E k \in 1..Len(list) : list[k] = name

\* How often name occurs in the list.
Count(list, name) == Cardinality({k \in 1..Len(list) : list[k] = name})

\* The positions of the archive entries of a name.
Entries(name) == {k \in 1..Len(converted_files) : converted_files[k][1] = name}

\* The connection was established.
Connected == snowflake_connection # "unbound"

-----------------------------------------------------------------------------
(* C1 *)

\* C1: the Registration Attempter retries at most once.  A registration
\* never makes more than two submissions or more than one repair request;
\* and a finished registration whose submissions all reported a
\* ProgrammingError and whose repair request returned a corrected body made
\* exactly two submissions and exactly one repair request and returned False.
C1_RetriesAtMostOnce ==
    \A i \in Files :
        LET S == Submissions(i)
            R == Repairs(i)
        IN  /\ Len(S) <= 2
            /\ Len(R) <= 1
            /\ ( /\ Finished(i)
                 /\ S # <<>>
                 /\ \A k \in 1..Len(S) : S[k].error = "ProgrammingError"
                 /\ \A k \in 1..Len(R) :
                        R[k].status = "returned" /\ IsBody(R[k].value) )
               => /\ Len(S) = 2
                  /\ Len(R) = 1
                  /\ registration[i] = "False"

\* A registration that failed twice with a ProgrammingError around one
\* repair that returned a body.
C1_Witness ==
    \E i \in Files :
        /\ registration[i] = "False"
        /\ Len(Submissions(i)) = 2
        /\ \A k \in 1..2 : Submissions(i)[k].error = "ProgrammingError"
        /\ Len(Repairs(i)) = 1
        /\ IsBody(Repairs(i)[1].value)

-----------------------------------------------------------------------------
(* C9 *)

\* C9: when the database accepts the first submission, the registration
\* makes exactly one submission and no repair request and returns True.
C9_FirstAttemptSucceeds ==
    \A i \in Files :
        LET S == Submissions(i)
        IN  (S # <<>> /\ S[1].error = "ok")
            => /\ Len(S) = 1
               /\ Repairs(i) = <<>>
               /\ registration[i] = "True"
               /\ InList(created_successfully, uploaded_files[i])

\* A registration whose first submission was accepted.
C9_Witness ==
    \E i \in Files :
        /\ Submissions(i) # <<>>
        /\ Submissions(i)[1].error = "ok"
        /\ registration[i] = "True"

-----------------------------------------------------------------------------
(* C10 *)

\* C10: after a first submission that failed with a ProgrammingError, a
\* repair request that returns None is followed by no second submission and
\* the registration returns False; one that returns a corrected body is
\* followed by one last submission, which carries that corrected body, and
\* the registration returns True exactly when that submission succeeds.
C10_RepairThenResubmit ==
    \A i \in Files :
        LET S == Submissions(i)
            R == Repairs(i)
        IN  ( /\ S # <<>>
              /\ S[1].error = "ProgrammingError"
              /\ R # <<>>
              /\ R[1].status = "returned" )
            => /\ R[1].value = None
                  => (Len(S) = 1 /\ registration[i] = "False")
               /\ Len(S) >= 2
                  => (Len(S) = 2 /\ S[2].arg = R[1].value /\ IsBody(R[1].value))
               /\ (IsBody(R[1].value) /\ Finished(i))
                  => /\ Len(S) = 2
                     /\ registration[i] = "True" <=> S[2].error = "ok"
                     /\ registration[i] = "False"
                            <=> S[2].error = "ProgrammingError"

\* A registration whose repaired body differs from the translation and was
\* accepted by the second submission.
C10_Witness ==
    \E i \in Files :
        /\ Len(Submissions(i)) = 2
        /\ Submissions(i)[1].error = "ProgrammingError"
        /\ Submissions(i)[2].error = "ok"
        /\ Submissions(i)[2].arg # Submissions(i)[1].arg
        /\ Submissions(i)[2].arg = Repairs(i)[1].value
        /\ registration[i] = "True"

-----------------------------------------------------------------------------
(* C2 *)

\* C2: when a batch run that got its connection ends, every uploaded
\* file's name is in exactly one of created_successfully and
\* not_created_files, exactly once.
C2_EveryFileInOneList ==
    (Ended /\ Connected)
    => \A i \in Files :
          Count(created_successfully, uploaded_files[i])
              + Count(not_created_files, uploaded_files[i]) = 1

-----------------------------------------------------------------------------
(* C3 *)

\* The translation request of file i returned a value satisfying P.
TranslationReturned(i, P(_)) ==
    \E k \in 1..Len(calls) :
        /\ calls[k].op = "convert_procedure"
        /\ calls[k].file = i
        /\ calls[k].status = "returned"
        /\ P(calls[k].value)

IsNotNone(v) == v # None

\* C3, as stated: converted_files holds an entry for a file if and only if
\* its translation request returned a value other than None.
C3_ArchivedIffNotNone ==
    \A i \in Files :
        Entries(uploaded_files[i]) # {} <=> TranslationReturned(i, IsNotNone)

\* C3, amended: converted_files holds an entry for a file if and only if its
\* translation request returned a non-empty body, whatever became of the
\* registration; it holds at most one entry per file, whose content is that
\* body; and the zip, once written, holds exactly these entries.
C3_ArchivedIffBody ==
    /\ \A i \in Files :
          /\ Entries(uploaded_files[i]) # {} <=> TranslationReturned(i, IsBody)
          /\ Cardinality(Entries(uploaded_files[i])) <= 1
          /\ \A k \in Entries(uploaded_files[i]) :
                TranslationReturned(i, LAMBDA v : v = converted_files[k][2])
    /\ zip_file # None => zip_file = converted_files

\* A run that ended with an archived file whose registration failed and
\* one whose translation was empty.
C3_Witness ==
    /\ pc = "done"
    /\ zip_file # None
    /\ \E i \in Files :
          Entries(uploaded_files[i]) # {} /\ registration[i] = "False"
    /\ \E i \in Files :
          Entries(uploaded_files[i]) = {}
              /\ TranslationReturned(i, LAMBDA v : v = <<>>)

-----------------------------------------------------------------------------
(* C4 *)

\* A database failure outside categories (a)-(c): a failed connect, a
\* failed cursor creation, or a submission that raised another error than
\* ProgrammingError.
FatalDbFailure ==
    \E k \in 1..Len(calls) :
        \/ calls[k].op \in {"connect", "cursor"} /\ calls[k].error # "ok"
        \/ calls[k].op = "execute" /\ calls[k].error = "OtherError"

\* C4: failures of the remote model, of the extraction and ProgrammingErrors
\* of a submission never abort the batch: a run that met no other failure
\* has called the Translation Requester for every file when it ends.
C4_BatchNeverAborted ==
    (Ended /\ ~FatalDbFailure)
    => \A i \in Files : CallsOf(i, "convert_procedure") # <<>>

-----------------------------------------------------------------------------
(* C5 *)

\* The positions in the history of the database failures of another class
\* than ProgrammingError met while registering a file.
OtherErrorAt ==
    {k \in 1..Len(calls) :
        calls[k].op \in {"cursor", "execute"} /\ calls[k].error = "OtherError"}

\* C5: such a failure is followed by no repair request and no submission,
\* and when the run ends the failure is shown and the files after the one
\* it struck are in not_created_files.
C5_FatalFailureReportsFailed ==
    \A k \in OtherErrorAt :
        /\ \A m \in (k + 1)..Len(calls) :
              calls[m].op \notin {"execute", "procedure_error_rtry"}
        /\ Ended
           => /\ shown = "error"
              /\ \A j \in (calls[k].file + 1)..NumFiles :
                    InList(not_created_files, uploaded_files[j])

-----------------------------------------------------------------------------
(* C6 *)

\* C6: a run with uploaded files asks for the connection once; when it
\* ends, the release step has not failed, a connection that was acquired
\* has been closed exactly once, and one that was not acquired has not been
\* closed.
C6_ConnectionReleasedOnce ==
    (Ended /\ uploaded_files # <<>>)
    => /\ Len(CallsOf(0, "connect")) = 1
       /\ uncaught = "none"
       /\ pc = "done"
       /\ IF CallsOf(0, "connect")[1].error = "ok"
          THEN Len(CallsOf(0, "close")) = 1 /\ snowflake_connection = "closed"
          ELSE Len(CallsOf(0, "close")) = 0

-----------------------------------------------------------------------------
(* C7 *)

\* The cursors created for the registration of file i.
Cursors(i) ==
    SelectSeq(calls, LAMBDA c : c.op = "cursor" /\ c.file = i /\ c.error = "ok")

\* C7: every submission has a statement handle of its own, released before
\* the next one: a registration makes no more submissions than it created
\* cursors; no cursor is open once the registration is over; and releasing
\* is well-defined when the cursor could not be created, so that no
\* UnboundLocalError comes out of the registration.
C7_CursorPerAttempt ==
    \A i \in Files :
        /\ Len(Submissions(i)) <= Len(Cursors(i))
        /\ pc \notin {"cursor", "execute", "repair", "retry"} => cursor # "open"
        /\ error_message # "UnboundLocalError"

-----------------------------------------------------------------------------
(* C8 *)

\* C8: convert_procedure and procedure_error_rtry never raise: each of
\* their calls returns.
C8_RequestersNeverRaise ==
    \A k \in 1..Len(calls) :
        calls[k].op \in {"convert_procedure", "procedure_error_rtry"}
        => calls[k].status = "returned"

-----------------------------------------------------------------------------
(* C11 *)

\* The value the translation request of file i returned.
Translation(i) == CallsOf(i, "convert_procedure")[1].value

\* The registration of file i failed once with a ProgrammingError, was
\* repaired with a body and succeeded with the second submission.
RepairedAndCreated(i) ==
    /\ Len(Submissions(i)) = 2
    /\ Submissions(i)[1].error = "ProgrammingError"
    /\ Submissions(i)[2].error = "ok"
    /\ Len(Repairs(i)) = 1
    /\ IsBody(Repairs(i)[1].value)

\* C11: a file whose first submission fails with a ProgrammingError, whose
\* repair returns a corrected body and whose second submission succeeds is
\* in created_successfully and not in not_created_files, and its archive
\* entry holds the translation as first submitted, not the repaired body;
\* for a batch of that one file the run ends with created_successfully =
\* [name], not_created_files empty and the zip holding that one entry.
C11_ArchiveKeepsTranslation ==
    \A i \in Files :
        RepairedAndCreated(i)
        => /\ registration[i] = "True"
           /\ Count(created_successfully, uploaded_files[i]) = 1
           /\ Count(not_created_files, uploaded_files[i]) = 0
           /\ Cardinality(Entries(uploaded_files[i])) = 1
           /\ \A k \in Entries(uploaded_files[i]) :
                 /\ converted_files[k][2] = Translation(i)
                 /\ converted_files[k][2] = Submissions(i)[1].arg
                 /\ Repairs(i)[1].value # Translation(i)
                    => converted_files[k][2] # Repairs(i)[1].value
           /\ (NumFiles = 1 /\ Ended)
              => /\ pc = "done"
                 /\ created_successfully = <<uploaded_files[1]>>
                 /\ not_created_files = <<>>
                 /\ converted_files = <<<<uploaded_files[1], Translation(1)>>>>
                 /\ zip_file = converted_files

\* The run of a single file that was repaired with a body other than its
\* translation has ended.
C11_Witness ==
    /\ NumFiles = 1
    /\ pc = "done"
    /\ RepairedAndCreated(1)
    /\ Repairs(1)[1].value # Translation(1)
    /\ created_successfully = <<uploaded_files[1]>>

-----------------------------------------------------------------------------
(* C12 *)

\* The positions of the history that belong to a file of the batch.
FileCalls == {k \in 1..Len(calls) : calls[k].file \in Files}

\* The translation request of file i returned no body.
TranslationAbsent(i) ==
    /\ CallsOf(i, "convert_procedure") # <<>>
    /\ CallsOf(i, "convert_procedure")[1].status = "returned"
    /\ ~IsBody(Translation(i))

\* C12: the files are processed in input order, one after the other and
\* each at most once: the calls made for a file never follow a call made
\* for a later file, no file is skipped, each file has at most one
\* translation request and one registration, and its translation request
\* comes before every database call and repair request made for it.  A file
\* whose translation is absent is in not_created_files, was never
\* registered and has no archive entry; so a batch of two whose first file
\* translates and registers and whose second has no translation ends with
\* created_successfully = [first], not_created_files = [second] and the
\* first file's translation as the only archive entry.
C12_InOrderOnceEach ==
    /\ \A k, m \in FileCalls : k < m => calls[k].file <= calls[m].file
    /\ \A k \in FileCalls :
          \A j \in 1..(calls[k].file - 1) : CallsOf(j, "convert_procedure") # <<>>
    /\ \A i \in Files :
          /\ Len(CallsOf(i, "convert_procedure")) <= 1
          /\ Len(CallsOf(i, "cursor")) <= 1
          /\ Count(created_successfully, uploaded_files[i])
                + Count(not_created_files, uploaded_files[i]) <= 1
          /\ \A m \in FileCalls :
                (calls[m].file = i /\ calls[m].op # "convert_procedure")
                => \E k \in 1..(m - 1) :
                      /\ calls[k].file = i
                      /\ calls[k].op = "convert_procedure"
                      /\ calls[k].status = "returned"
          /\ TranslationAbsent(i)
             => /\ Count(not_created_files, uploaded_files[i]) = 1
                /\ registration[i] = "not called"
                /\ CallsOf(i, "cursor") = <<>>
                /\ Submissions(i) = <<>>
                /\ Repairs(i) = <<>>
                /\ Entries(uploaded_files[i]) = {}
    /\ ( /\ NumFiles = 2
         /\ Ended
         /\ registration[1] = "True"
         /\ TranslationAbsent(2) )
       => /\ pc = "done"
          /\ created_successfully = <<uploaded_files[1]>>
          /\ not_created_files = <<uploaded_files[2]>>
          /\ converted_files = <<<<uploaded_files[1], Translation(1)>>>>
          /\ zip_file = converted_files

\* The run of a batch of two has ended: the first file translated and
\* registered at once, the translation of the second was absent.
C12_Witness ==
    /\ NumFiles = 2
    /\ pc = "done"
    /\ registration[1] = "True"
    /\ Len(Submissions(1)) = 1
    /\ TranslationAbsent(2)
    /\ Translation(2) = None
    /\ not_created_files = <<uploaded_files[2]>>

-----------------------------------------------------------------------------
(* C13 *)

\* The extraction has run on response_text.
Extracted == pc \in {"translation extracted", "repair extracted"}

\* The indices at which an opening marker starts in the response.
OpeningMarkers ==
    {i \in 0..Len(response_text) : OccursAt(response_text, SqlMarker, i)}

FirstOpening == CHOOSE i \in OpeningMarkers : \A j \in OpeningMarkers : i <= j

\* The indices of the fences that start after the first opening marker.
ClosingFences ==
    {j \in (FirstOpening + 6)..Len(response_text) :
        OccursAt(response_text, Fence, j)}

NextClosing == CHOOSE j \in ClosingFences : \A m \in ClosingFences : j <= m

\* The text strictly between the first opening marker and the next fence.
Between == SubSeq(response_text, FirstOpening + 7, NextClosing)

\* r is text without the whitespace at its two ends.
IsTrimOf(r, text) ==
    \E a \in 0..Len(text) : \E b \in a..Len(text) :
        /\ r = SubSeq(text, a + 1, b)
        /\ \A k \in 1..a : text[k] \in Whitespace
        /\ \A k \in (b + 1)..Len(text) : text[k] \in Whitespace
        /\ r # <<>> => (r[1] \notin Whitespace /\ r[Len(r)] \notin Whitespace)

\* C13: the extraction returns None when the response has no opening
\* marker, None when no fence starts after the first opening marker
\* (whatever fences stand before it), and otherwise the text strictly
\* between that marker and the next fence after it, trimmed.
C13_ExtractsFirstBlock ==
    Extracted
    => IF OpeningMarkers = {} THEN sql_code_block = None
       ELSE IF ClosingFences = {} THEN sql_code_block = None
       ELSE sql_code_block # None /\ IsTrimOf(sql_code_block, Between)

\* A padded block after a plain fence has been extracted without its
\* padding.
C13_Witness ==
    /\ Extracted
    /\ response_text = Fence \o SqlMarker \o <<" ", "A", " ">> \o Fence
    /\ sql_code_block = <<"A">>

\* An opening marker after a plain fence and with no fence after it has
\* been extracted as None.
C13_WitnessUnterminated ==
    /\ Extracted
    /\ response_text = Fence \o <<"A">> \o SqlMarker \o <<"A">>
    /\ sql_code_block = None

-----------------------------------------------------------------------------
(* C14 *)

\* snowflake.connector.connect raised.
ConnectFailed ==
    \E k \in 1..Len(calls) : calls[k].op = "connect" /\ calls[k].error # "ok"

\* C14: when the connection cannot be established no translation request,
\* no repair request, no cursor and no submission is made for any file,
\* nothing is recorded for any file, and the failure is shown to the
\* operator.
C14_NoConnectionNoWork ==
    ConnectFailed
    => /\ \A k \in 1..Len(calls) :
             calls[k].op \notin {"convert_procedure", "procedure_error_rtry",
                                 "cursor", "execute"}
       /\ \A i \in Files : registration[i] = "not called"
       /\ converted_files = <<>>
       /\ created_successfully = <<>>
       /\ not_created_files = <<>>
       /\ zip_file = None
       /\ shown = "error"
       /\ error_message = "OtherError"

\* The run of a batch of two ended after its connection attempt failed.
C14_Witness ==
    /\ ConnectFailed
    /\ Ended
    /\ NumFiles = 2
    /\ shown = "error"

-----------------------------------------------------------------------------
(* C15 *)

\* The translation request of file i returned the empty text.
TranslationEmpty(i) ==
    /\ CallsOf(i, "convert_procedure") # <<>>
    /\ CallsOf(i, "convert_procedure")[1].status = "returned"
    /\ Translation(i) = <<>>

\* The repair request that followed the failed first submission of file i
\* returned the empty text.
RepairEmpty(i) ==
    /\ Submissions(i) # <<>>
    /\ Repairs(i) # <<>>
    /\ Repairs(i)[1].status = "returned"
    /\ Repairs(i)[1].value = <<>>

\* C15: a block that is empty after trimming counts as absent.  As a
\* translation: the file is in not_created_files, has no archive entry and
\* no cursor or submission is made for it.  As the repair of a failed first
\* submission: no second submission is made and the registration returns
\* False.
C15_EmptyBodyIsAbsent ==
    \A i \in Files :
        /\ TranslationEmpty(i)
           => /\ Count(not_created_files, uploaded_files[i]) = 1
              /\ Count(created_successfully, uploaded_files[i]) = 0
              /\ Entries(uploaded_files[i]) = {}
              /\ CallsOf(i, "cursor") = <<>>
              /\ Submissions(i) = <<>>
              /\ registration[i] = "not called"
        /\ RepairEmpty(i)
           => /\ Len(Submissions(i)) = 1
              /\ registration[i] = "False"
              /\ Count(not_created_files, uploaded_files[i]) = 1
              /\ Count(created_successfully, uploaded_files[i]) = 0

\* A run has ended in which one file's repair and another file's
\* translation were empty blocks.
C15_Witness ==
    /\ pc = "done"
    /\ \E i \in Files : RepairEmpty(i) /\ registration[i] = "False"
    /\ \E i \in Files : TranslationEmpty(i)

-----------------------------------------------------------------------------
(* C16 *)

\* An exception reached line 197.
LoopAborted == error_message # "none"

\* C16: the report is all or nothing.  The two lists and the zip are
\* rendered only when the loop has gone through every uploaded file without
\* an exception reaching line 197, each file then being in one list; once
\* an exception has reached line 197 only the error message is rendered, and
\* the zip is never written, whatever the lists and converted_files hold.
C16_ReportAllOrNothing ==
    /\ shown = "report"
       => /\ ~LoopAborted
          /\ idx = NumFiles + 1
          /\ zip_file = converted_files
          /\ \A i \in Files :
                /\ registration[i] # "raised"
                /\ Count(created_successfully, uploaded_files[i])
                      + Count(not_created_files, uploaded_files[i]) = 1
    /\ zip_file # None => shown = "report"
    /\ LoopAborted => (shown = "error" /\ zip_file = None)
    /\ (Ended /\ uploaded_files # <<>>) => (shown = "report" <=> ~LoopAborted)

\* A run has ended on an exception at the second file or later: the first
\* file's outcome and archive entry exist and are not rendered.
C16_Witness ==
    /\ Ended
    /\ LoopAborted
    /\ idx >= 2
    /\ idx <= NumFiles
    /\ created_successfully # <<>>
    /\ converted_files # <<>>
    /\ shown = "error"
    /\ zip_file = None

=============================================================================
